---------------------------- MODULE Spec2Model ----------------------------
(***************************************************************************)
(* Model of pkg/provisioner/ironic/node.go (node resolution by ID, name    *)
(* and MAC, boot ports, validation) and of the BMCEventSubscription        *)
(* admission webhook.                                                      *)
(*                                                                         *)
(* The remote service (Ironic, reached through gophercloud) is external:   *)
(* what it answers to one call is an input of the handler.  A `client` is  *)
(* the record of the answers the service gives during one handler call.    *)
(* The port registry is the one part of the remote state this code writes  *)
(* (CreateBootPort), so it is a variable.                                  *)
(***************************************************************************)
EXTENDS Integers, Sequences, FiniteSets

VARIABLES
    ports,         \* remote port registry: sequence of port records
    booted,        \* history: UUIDs of the nodes a CreateBootPort call succeeded for
    requests,      \* number of requests the remote service has received
    ret,           \* the call of node.go that has just returned to the caller
                   \* (its inputs and what it returned), Idle between calls
    subscription,  \* the stored BMCEventSubscriptions, by name (Absent if none)
    admission      \* the last admission event: hook, object, error returned

vars == <<ports, booted, requests, ret, subscription, admission>>

----------------------------------------------------------------------------
(* Bounds                                                                   *)

MaxNames == 3       \* longest list of candidate names given to FindNodeByNames
MaxPorts == 2       \* most port records the registry holds
MaxRequests == 4    \* most requests counted

NodeIDs == {"a", "b", "c"}          \* identifiers (UUID or name) a node can have
IDs == NodeIDs \cup {""}            \* what a caller can pass: also the empty ID
MACs == {"m1", "m2"}

----------------------------------------------------------------------------
(* Values: nodes and errors                                                 *)

NilNode == [nil |-> TRUE]
NodeOf(uuid) == [nil |-> FALSE, UUID |-> uuid]

NoError == [type |-> "nil"]
ErrDefault404 == [type |-> "ErrDefault404"]
ErrDefault500 == [type |-> "ErrDefault500"]     \* any failure that is not a 404
ErrExtract == [type |-> "ErrExtract"]           \* a page whose body cannot be read

\* fmt.Errorf(msg + " %s: %w", arg, err): a new error that wraps err
Errorf(msg, arg, err) == [type |-> "wrapError", msg |-> msg, arg |-> arg, err |-> err]
\* fmt.Errorf(msg + " %s ...", arg): a new error that wraps nothing
ErrorString(msg, arg) == [type |-> "errorString", msg |-> msg, arg |-> arg]

\* One request received by the remote service
Request(api, arg) == [api |-> api, arg |-> arg]

----------------------------------------------------------------------------
(* The remote service's answers                                             *)

GetOutcomes == {"found", "notfound", "error"}
ListOutcomes == {"ok", "pageError", "extractError"}

\* nodes.Get(client, nodeID).ExtractInto(&node.Node): the error, and the payload
NodesGet(client, nodeID) ==
    CASE client.get[nodeID] = "found"    -> [err |-> NoError, UUID |-> nodeID]
      [] client.get[nodeID] = "notfound" -> [err |-> ErrDefault404, UUID |-> ""]
      [] OTHER                           -> [err |-> ErrDefault500, UUID |-> ""]

\* Whether a port record passes the filters of a ports.ListOpts
PortMatches(port, opts) ==
    /\ ("Address" \in DOMAIN opts => port.Address = opts.Address)
    /\ ("NodeUUID" \in DOMAIN opts => port.NodeUUID = opts.NodeUUID)

\* A port record as the service returns it when Fields = ["node_uuid"]
Projected(port) == [NodeUUID |-> port.NodeUUID]

RECURSIVE FilterPorts(_, _)
FilterPorts(registry, opts) ==
    IF registry = <<>> THEN <<>>
    ELSE IF PortMatches(Head(registry), opts)
         THEN <<Projected(Head(registry))>> \o FilterPorts(Tail(registry), opts)
         ELSE FilterPorts(Tail(registry), opts)

\* ports.List(client, opts).AllPages(), then ExtractPorts / IsEmpty on the pages:
\* the error of paging, the error of reading the pages, the ports read
PortsList(client, opts) ==
    CASE client.list = "pageError" ->
            [pagesErr |-> ErrDefault500, extractErr |-> NoError, ports |-> <<>>]
      [] client.list = "extractError" ->
            [pagesErr |-> NoError, extractErr |-> ErrExtract, ports |-> <<>>]
      [] OTHER ->
            [pagesErr |-> NoError, extractErr |-> NoError, ports |-> FilterPorts(ports, opts)]

\* ports.Create(client, opts).Extract(): the error, and the registry afterwards
PortsCreate(client, opts) ==
    IF client.create = "ok"
    THEN [err |-> NoError, ports |-> Append(ports, opts)]
    ELSE [err |-> ErrDefault500, ports |-> ports]

\* nodes.Validate(client, id).Extract(): the error, and the two outcomes
NodesValidate(client, id) == client.validate

----------------------------------------------------------------------------
(* NodeResolver                                                             *)

\* A handler's result: the node and error returned, and the requests issued
Result(node, err, reqs) == [node |-> node, err |-> err, reqs |-> reqs]

\* GetNode with every failure of the lookup taken for "not found"
GetNodeHidesFailures(client, nodeID) ==
    IF nodeID = ""
    THEN Result(NilNode, NoError, <<>>)
    ELSE LET got == NodesGet(client, nodeID)
             reqs == <<Request("nodes.Get", nodeID)>>
         IN  IF got.err = NoError
             THEN Result(NodeOf(got.UUID), NoError, reqs)
             ELSE Result(NilNode, NoError, reqs)

\* GetNode without the check of the empty ID: the empty ID is sent to the
\* service too, which has no node of that name
GetNodeAsksForEmptyID(client, nodeID) ==
    LET reqs == <<Request("nodes.Get", nodeID)>>
        got == IF nodeID = "" THEN [err |-> ErrDefault404, UUID |-> ""]
               ELSE NodesGet(client, nodeID)
    IN  CASE got.err = NoError       -> Result(NodeOf(got.UUID), NoError, reqs)
          [] got.err = ErrDefault404 -> Result(NilNode, NoError, reqs)
          [] OTHER -> Result(NilNode,
                             Errorf("failed to find node by ID", nodeID, got.err),
                             reqs)

GetNode(client, nodeID) ==
    IF nodeID = ""
    THEN Result(NilNode, NoError, <<>>)
    ELSE LET got == NodesGet(client, nodeID)
             reqs == <<Request("nodes.Get", nodeID)>>
         IN  CASE got.err = NoError       -> Result(NodeOf(got.UUID), NoError, reqs)
               [] got.err = ErrDefault404 -> Result(NilNode, NoError, reqs)
               [] OTHER -> Result(NilNode,
                                  Errorf("failed to find node by ID", nodeID, got.err),
                                  reqs)

AssertNode(client, nodeID) ==
    LET r == GetNode(client, nodeID)
    IN  IF r.node = NilNode /\ r.err # NoError
        THEN Result(r.node, ErrorString("failed to find node by ID: not found", nodeID), r.reqs)
        ELSE r

\* FindNodeByNames without the return inside the loop: the last match wins
RECURSIVE FindNodeByNamesLastMatch(_, _)
FindNodeByNamesLastMatch(client, names) ==
    IF names = <<>>
    THEN Result(NilNode, NoError, <<>>)
    ELSE LET nodeName == Head(names)
             r == GetNode(client, nodeName)
             rest == FindNodeByNamesLastMatch(client, Tail(names))
         IN  IF r.err # NoError
             THEN Result(NilNode, Errorf("failed to find node by name", nodeName, r.err), r.reqs)
             ELSE IF r.node # NilNode /\ rest.node = NilNode /\ rest.err = NoError
             THEN Result(r.node, NoError, r.reqs \o rest.reqs)
             ELSE Result(rest.node, rest.err, r.reqs \o rest.reqs)

\* FindNodeByNames that goes on to the next name when a lookup fails
RECURSIVE FindNodeByNamesSkipsFailures(_, _)
FindNodeByNamesSkipsFailures(client, names) ==
    IF names = <<>>
    THEN Result(NilNode, NoError, <<>>)
    ELSE LET nodeName == Head(names)
             r == GetNode(client, nodeName)
         IN  IF r.err = NoError /\ r.node # NilNode
             THEN Result(r.node, NoError, r.reqs)
             ELSE LET rest == FindNodeByNamesSkipsFailures(client, Tail(names))
                  IN  Result(rest.node, rest.err, r.reqs \o rest.reqs)

RECURSIVE FindNodeByNames(_, _)
FindNodeByNames(client, names) ==
    IF names = <<>>
    THEN Result(NilNode, NoError, <<>>)
    ELSE LET nodeName == Head(names)
             r == GetNode(client, nodeName)
         IN  IF r.err # NoError
             THEN Result(NilNode, Errorf("failed to find node by name", nodeName, r.err), r.reqs)
             ELSE IF r.node # NilNode
             THEN Result(r.node, NoError, r.reqs)
             ELSE LET rest == FindNodeByNames(client, Tail(names))
                  IN  Result(rest.node, rest.err, r.reqs \o rest.reqs)


\* findNodeIDByMAC that takes the last port of the answer, not the first
findNodeIDByMACLastPort(client, macAddress) ==
    LET reqs == <<Request("ports.List", macAddress)>>
        listed == PortsList(client, [Fields |-> {"node_uuid"}, Address |-> macAddress])
    IN  IF listed.pagesErr # NoError
        THEN [id |-> "", err |-> listed.pagesErr, reqs |-> reqs]
        ELSE IF listed.extractErr # NoError
        THEN [id |-> "", err |-> listed.extractErr, reqs |-> reqs]
        ELSE IF Len(listed.ports) = 0
        THEN [id |-> "", err |-> NoError, reqs |-> reqs]
        ELSE [id |-> listed.ports[Len(listed.ports)].NodeUUID, err |-> NoError,
              reqs |-> reqs]

findNodeIDByMAC(client, macAddress) ==
    LET reqs == <<Request("ports.List", macAddress)>>
        listed == PortsList(client, [Fields |-> {"node_uuid"}, Address |-> macAddress])
    IN  IF listed.pagesErr # NoError
        THEN [id |-> "", err |-> listed.pagesErr, reqs |-> reqs]
        ELSE IF listed.extractErr # NoError
        THEN [id |-> "", err |-> listed.extractErr, reqs |-> reqs]
        ELSE IF Len(listed.ports) = 0
        THEN [id |-> "", err |-> NoError, reqs |-> reqs]
        ELSE [id |-> listed.ports[1].NodeUUID, err |-> NoError, reqs |-> reqs]

\* FindNodeByMAC that drops the error of the port query
FindNodeByMACDropsError(client, macAddress) ==
    LET found == findNodeIDByMAC(client, macAddress)
    IN  IF found.id = "" \/ found.err # NoError
        THEN Result(NilNode, NoError, found.reqs)
        ELSE LET r == GetNode(client, found.id)
             IN  Result(r.node, r.err, found.reqs \o r.reqs)

FindNodeByMAC(client, macAddress) ==
    LET found == findNodeIDByMAC(client, macAddress)
    IN  IF found.id = "" \/ found.err # NoError
        THEN Result(NilNode, found.err, found.reqs)
        ELSE LET r == GetNode(client, found.id)
             IN  Result(r.node, r.err, found.reqs \o r.reqs)

----------------------------------------------------------------------------
(* PortRegistry                                                             *)

CreateBootPort(node, client, macAddress) ==
    LET created == PortsCreate(client, [NodeUUID |-> node.UUID,
                                        Address |-> macAddress,
                                        PXEEnabled |-> TRUE])
        reqs == <<Request("ports.Create", macAddress)>>
    IN  IF created.err # NoError
        THEN [err |-> Errorf("failed to create ironic port", <<macAddress, node.UUID>>,
                             created.err),
              ports |-> created.ports, reqs |-> reqs]
        ELSE [err |-> NoError, ports |-> created.ports, reqs |-> reqs]

\* HasPorts that returns the emptiness of the list, not its negation
HasPortsInverted(node, client) ==
    LET reqs == <<Request("ports.List", node.UUID)>>
        listed == PortsList(client, [Fields |-> {"node_uuid"}, NodeUUID |-> node.UUID])
    IN  IF listed.pagesErr # NoError
        THEN [has |-> FALSE,
              err |-> Errorf("failed to page over list of ports", "", listed.pagesErr),
              reqs |-> reqs]
        ELSE IF listed.extractErr # NoError
        THEN [has |-> FALSE,
              err |-> Errorf("failed to check port list status", "", listed.extractErr),
              reqs |-> reqs]
        ELSE [has |-> (Len(listed.ports) = 0), err |-> NoError, reqs |-> reqs]

HasPorts(node, client) ==
    LET reqs == <<Request("ports.List", node.UUID)>>
        listed == PortsList(client, [Fields |-> {"node_uuid"}, NodeUUID |-> node.UUID])
    IN  IF listed.pagesErr # NoError
        THEN [has |-> FALSE,
              err |-> Errorf("failed to page over list of ports", "", listed.pagesErr),
              reqs |-> reqs]
        ELSE IF listed.extractErr # NoError
        THEN [has |-> FALSE,
              err |-> Errorf("failed to check port list status", "", listed.extractErr),
              reqs |-> reqs]
        ELSE IF Len(listed.ports) = 0
        THEN [has |-> FALSE, err |-> NoError, reqs |-> reqs]
        ELSE [has |-> TRUE, err |-> NoError, reqs |-> reqs]

----------------------------------------------------------------------------
(* NodeValidator                                                            *)

\* Validate that checks Deploy before Boot
ValidateDeployFirst(node, client) ==
    LET validateResult == NodesValidate(client, node.UUID)
        reqs == <<Request("nodes.Validate", node.UUID)>>
        deployFailures == IF ~validateResult.Deploy.Result
                          THEN <<validateResult.Deploy.Reason>> ELSE <<>>
        failures == IF ~validateResult.Boot.Result
                    THEN Append(deployFailures, validateResult.Boot.Reason)
                    ELSE deployFailures
    IN  IF validateResult.err # NoError
        THEN [failures |-> <<>>, err |-> validateResult.err, reqs |-> reqs]
        ELSE [failures |-> failures, err |-> NoError, reqs |-> reqs]

Validate(node, client) ==
    LET validateResult == NodesValidate(client, node.UUID)
        reqs == <<Request("nodes.Validate", node.UUID)>>
        bootFailures == IF ~validateResult.Boot.Result
                        THEN <<validateResult.Boot.Reason>> ELSE <<>>
        failures == IF ~validateResult.Deploy.Result
                    THEN Append(bootFailures, validateResult.Deploy.Reason)
                    ELSE bootFailures
    IN  IF validateResult.err # NoError
        THEN [failures |-> <<>>, err |-> validateResult.err, reqs |-> reqs]
        ELSE [failures |-> failures, err |-> NoError, reqs |-> reqs]

----------------------------------------------------------------------------
(* Inputs of the handlers                                                   *)

\* Lists of candidate names, the empty name included
RECURSIVE SeqsUpTo(_, _)
SeqsUpTo(S, n) ==
    IF n = 0 THEN {<<>>}
    ELSE LET shorter == SeqsUpTo(S, n - 1)
         IN  shorter \cup {Append(q, x) : q \in shorter, x \in S}

NameLists == SeqsUpTo(IDs, MaxNames)

\* The service's answers to ID lookups during one call
GetAnswers == [NodeIDs -> GetOutcomes]
Handles == {NodeOf(uuid) : uuid \in NodeIDs}

Reasons == {"", "no image", "no deploy"}
ValidateResults ==
    {[err |-> ErrDefault500]} \cup
    [err : {NoError},
     Boot : [Result : BOOLEAN, Reason : Reasons],
     Deploy : [Result : BOOLEAN, Reason : Reasons]]

CreateOutcomes == {"ok", "error"}

\* Subscription objects: a name and the fields the validation routine checks
SubNames == {"s1", "s2"}
SubFields == <<"field1", "field2">>
FieldValues == {"invalid", "x", "y"}
Subscriptions ==
    [Name : SubNames, Spec : [{SubFields[i] : i \in 1..Len(SubFields)} -> FieldValues]]
Absent == [present |-> FALSE]

Idle == [op |-> "none"]
NoAdmission == [hook |-> "none"]

\* The remote service counts the requests of one handler call
Counted(reqs) ==
    /\ requests + Len(reqs) <= MaxRequests
    /\ requests' = requests + Len(reqs)

----------------------------------------------------------------------------
(* Handler calls.  Every handler is synchronous: the caller makes one call *)
(* at a time and holds its result in ret until it goes on (Continue).      *)

CallGetNode ==
    \E get \in GetAnswers, nodeID \in IDs :
        LET client == [get |-> get]
            out == GetNode(client, nodeID)
        IN  /\ ret = Idle
            /\ Counted(out.reqs)
            /\ ret' = [op |-> "GetNode", client |-> client, nodeID |-> nodeID,
                       before |-> requests, out |-> out]
            /\ UNCHANGED <<ports, booted, subscription, admission>>

CallAssertNode ==
    \E get \in GetAnswers, nodeID \in IDs :
        LET client == [get |-> get]
            out == AssertNode(client, nodeID)
        IN  /\ ret = Idle
            /\ Counted(out.reqs)
            /\ ret' = [op |-> "AssertNode", client |-> client, nodeID |-> nodeID,
                       before |-> requests, out |-> out]
            /\ UNCHANGED <<ports, booted, subscription, admission>>

CallFindNodeByNames ==
    \E get \in GetAnswers, names \in NameLists :
        LET client == [get |-> get]
            out == FindNodeByNames(client, names)
        IN  /\ ret = Idle
            /\ Counted(out.reqs)
            /\ ret' = [op |-> "FindNodeByNames", client |-> client, names |-> names,
                       before |-> requests, out |-> out]
            /\ UNCHANGED <<ports, booted, subscription, admission>>

CallValidate ==
    \E node \in Handles, validateResult \in ValidateResults :
        LET client == [validate |-> validateResult]
            out == Validate(node, client)
        IN  /\ ret = Idle
            /\ Counted(out.reqs)
            /\ ret' = [op |-> "Validate", client |-> client, node |-> node,
                       before |-> requests, out |-> out]
            /\ UNCHANGED <<ports, booted, subscription, admission>>

CallFindNodeByMAC ==
    \E get \in GetAnswers, list \in ListOutcomes, macAddress \in MACs :
        LET client == [get |-> get, list |-> list]
            out == FindNodeByMAC(client, macAddress)
        IN  /\ ret = Idle
            /\ Counted(out.reqs)
            /\ ret' = [op |-> "FindNodeByMAC", client |-> client, macAddress |-> macAddress,
                       before |-> requests, out |-> out]
            /\ UNCHANGED <<ports, booted, subscription, admission>>

CallCreateBootPort ==
    \E node \in Handles, create \in CreateOutcomes, macAddress \in MACs :
        LET client == [create |-> create]
            out == CreateBootPort(node, client, macAddress)
        IN  /\ ret = Idle
            /\ Len(ports) < MaxPorts
            /\ Counted(out.reqs)
            /\ ports' = out.ports
            /\ booted' = IF out.err = NoError THEN booted \cup {node.UUID} ELSE booted
            /\ ret' = [op |-> "CreateBootPort", client |-> client, node |-> node,
                       macAddress |-> macAddress, before |-> requests,
                       out |-> [err |-> out.err, reqs |-> out.reqs]]
            /\ UNCHANGED <<subscription, admission>>

CallHasPorts ==
    \E node \in Handles, list \in ListOutcomes :
        LET client == [list |-> list]
            out == HasPorts(node, client)
        IN  /\ ret = Idle
            /\ Counted(out.reqs)
            /\ ret' = [op |-> "HasPorts", client |-> client, node |-> node,
                       before |-> requests, out |-> out]
            /\ UNCHANGED <<ports, booted, subscription, admission>>

\* The caller goes on after a call has returned
Continue ==
    /\ ret # Idle
    /\ ret' = Idle
    /\ UNCHANGED <<ports, booted, requests, subscription, admission>>

----------------------------------------------------------------------------
(* SubscriptionAdmission                                                    *)

\* validateSubscription is defined outside this file; by its contract it
\* checks the proposed object's fields and returns one error per field that
\* fails.
RECURSIVE FieldErrors(_, _)
FieldErrors(s, fields) ==
    IF fields = <<>> THEN <<>>
    ELSE IF s.Spec[Head(fields)] = "invalid"
         THEN <<ErrorString("invalid field", Head(fields))>> \o FieldErrors(s, Tail(fields))
         ELSE FieldErrors(s, Tail(fields))

validateSubscription(s) == FieldErrors(s, SubFields)

\* errors.NewAggregate: nil for an empty list, else one error holding them all
NewAggregate(errlist) ==
    IF errlist = <<>> THEN NoError ELSE [type |-> "aggregate", errs |-> errlist]

ValidateCreate(s) == NewAggregate(validateSubscription(s))

\* ValidateUpdate that validates the new object the way ValidateCreate does
ValidateUpdateLikeCreate(s, old) == NewAggregate(validateSubscription(s))

ValidateUpdate(s, old) ==
    ErrorString("subscriptions cannot be updated, please recreate it", "")

ValidateDelete(s) == NoError

\* The hosting platform runs the hook and commits the mutation only if the
\* hook returns no error.
AdmitCreate ==
    \E s \in Subscriptions :
        LET err == ValidateCreate(s)
        IN  /\ subscription[s.Name] = Absent
            /\ admission' = [hook |-> "create", object |-> s, old |-> Absent, err |-> err]
            /\ subscription' = IF err = NoError
                               THEN [subscription EXCEPT ![s.Name] = s]
                               ELSE subscription
            /\ UNCHANGED <<ports, booted, requests, ret>>

AdmitUpdate ==
    \E s \in Subscriptions :
        LET old == subscription[s.Name]
            err == ValidateUpdate(s, old)
        IN  /\ old # Absent
            /\ admission' = [hook |-> "update", object |-> s, old |-> old, err |-> err]
            /\ subscription' = IF err = NoError
                               THEN [subscription EXCEPT ![s.Name] = s]
                               ELSE subscription
            /\ UNCHANGED <<ports, booted, requests, ret>>

AdmitDelete ==
    \E name \in SubNames :
        LET s == subscription[name]
            err == ValidateDelete(s)
        IN  /\ s # Absent
            /\ admission' = [hook |-> "delete", object |-> s, old |-> s, err |-> err]
            /\ subscription' = IF err = NoError
                               THEN [subscription EXCEPT ![name] = Absent]
                               ELSE subscription
            /\ UNCHANGED <<ports, booted, requests, ret>>

----------------------------------------------------------------------------
(* Specifications                                                           *)

Init ==
    /\ ports = <<>>
    /\ booted = {}
    /\ requests = 0
    /\ ret = Idle
    /\ subscription = [name \in SubNames |-> Absent]
    /\ admission = NoAdmission

\* The handlers that read no remote state the code writes
NextResolver ==
    \/ CallGetNode
    \/ CallAssertNode
    \/ CallFindNodeByNames
    \/ CallValidate
    \/ Continue

SpecResolver == Init /\ [][NextResolver]_vars

\* The handlers that read or write the port registry
NextPorts ==
    \/ CallFindNodeByMAC
    \/ CallCreateBootPort
    \/ CallHasPorts
    \/ Continue

SpecPorts == Init /\ [][NextPorts]_vars

\* The admission hooks of the subscription resource
NextAdmission ==
    \/ AdmitCreate
    \/ AdmitUpdate
    \/ AdmitDelete

SpecAdmission == Init /\ [][NextAdmission]_vars

----------------------------------------------------------------------------
(* Vocabulary of the properties                                             *)

IsPrefix(p, q) == Len(p) <= Len(q) /\ SubSeq(q, 1, Len(p)) = p

\* The identifiers the remote service was asked for, in the order asked
LookedUp(reqs) == [i \in 1..Len(reqs) |-> reqs[i].arg]

\* The ID lookups (nodes.Get) among the requests of a call
NodeLookups(reqs) ==
    LET IsGet(r) == r.api = "nodes.Get"
    IN  LookedUp(SelectSeq(reqs, IsGet))

NonEmptyNames(names) ==
    LET NotEmpty(n) == n # ""
    IN  SelectSeq(names, NotEmpty)

\* What the service answers for a candidate name during the call
Exists(client, name) == name # "" /\ client.get[name] = "found"
Fails(client, name) == name # "" /\ client.get[name] = "error"

\* names[k] is the first name that exists, and no lookup before it fails
FirstMatchAt(client, names, k) ==
    /\ Exists(client, names[k])
    /\ \A j \in 1..(k - 1) : ~Exists(client, names[j]) /\ ~Fails(client, names[j])

\* names[k] is the first name whose lookup fails, and no name before it exists
FirstFailureAt(client, names, k) ==
    /\ Fails(client, names[k])
    /\ \A j \in 1..(k - 1) : ~Exists(client, names[j]) /\ ~Fails(client, names[j])

\* The registered ports with the given MAC address, in registry order
PortsWithAddress(macAddress) ==
    LET Has(port) == port.Address = macAddress
    IN  SelectSeq(ports, Has)

PortsOfNode(uuid) ==
    LET Of(port) == port.NodeUUID = uuid
    IN  SelectSeq(ports, Of)

----------------------------------------------------------------------------
(* Properties                                                               *)

\* C1: AssertNode never returns (no node, no error): for every ID and every
\* answer of the remote service it returns a node or a non-nil error.
C1_AssertNodeNodeOrError ==
    ret.op = "AssertNode" =>
        ~(ret.out.node = NilNode /\ ret.out.err = NoError)

\* C2 as stated: the remote lookups FindNodeByNames issues are a prefix of
\* the list of names, ending at the first name that exists, whose node is
\* returned.
C2_LookupsArePrefixOfNames ==
    ret.op = "FindNodeByNames" =>
        /\ IsPrefix(LookedUp(ret.out.reqs), ret.names)
        /\ \A k \in 1..Len(ret.names) :
               FirstMatchAt(ret.client, ret.names, k) =>
                   /\ LookedUp(ret.out.reqs) = SubSeq(ret.names, 1, k)
                   /\ ret.out.node = NodeOf(ret.names[k])

\* C2 amended: the remote lookups FindNodeByNames issues are, in order, the
\* non-empty names of a prefix of the list (an empty name is tried without a
\* remote lookup); when a name exists and no earlier lookup fails, the prefix
\* ends at the first existing name, its node is returned with no error, and
\* no later name is looked up.
C2_FirstMatchInOrder ==
    ret.op = "FindNodeByNames" =>
        /\ \E k \in 0..Len(ret.names) :
               LookedUp(ret.out.reqs) = NonEmptyNames(SubSeq(ret.names, 1, k))
        /\ \A k \in 1..Len(ret.names) :
               FirstMatchAt(ret.client, ret.names, k) =>
                   /\ LookedUp(ret.out.reqs) = NonEmptyNames(SubSeq(ret.names, 1, k))
                   /\ ret.out.node = NodeOf(ret.names[k])
                   /\ ret.out.err = NoError

\* names [a,b,c] with only b existing: lookups a then b, result b
C2_Witness ==
    /\ ret.op = "FindNodeByNames"
    /\ ret.names = <<"a", "b", "c">>
    /\ ret.client.get = [id \in NodeIDs |-> IF id = "b" THEN "found" ELSE "notfound"]
    /\ LookedUp(ret.out.reqs) = <<"a", "b">>
    /\ ret.out.node = NodeOf("b")

\* C3: FindNodeByMAC resolves in two stages.  When the port query succeeds:
\* a MAC registered to exactly one port, of a node N the service has, gives
\* node N; a MAC with no port gives an empty result and no error.  An ID
\* lookup is issued only when the port query returned a port, and then for
\* the first port's owning-node ID.
C3_FindNodeByMACTwoStages ==
    ret.op = "FindNodeByMAC" =>
        LET matching == PortsWithAddress(ret.macAddress)
            lookups == NodeLookups(ret.out.reqs)
        IN  /\ (ret.client.list = "ok" /\ Len(matching) = 1
                    /\ ret.client.get[matching[1].NodeUUID] = "found")
               => (ret.out.node = NodeOf(matching[1].NodeUUID) /\ ret.out.err = NoError)
            /\ (ret.client.list = "ok" /\ Len(matching) = 0)
               => (ret.out.node = NilNode /\ ret.out.err = NoError /\ lookups = <<>>)
            /\ lookups # <<>>
               => (ret.client.list = "ok" /\ Len(matching) >= 1
                       /\ lookups = <<matching[1].NodeUUID>>)

C3_Witness ==
    /\ ret.op = "FindNodeByMAC"
    /\ ret.client.list = "ok"
    /\ Len(PortsWithAddress(ret.macAddress)) = 1
    /\ Len(ports) = 2
    /\ ret.out.node = NodeOf(PortsWithAddress(ret.macAddress)[1].NodeUUID)

\* C4 as stated: a failure of the port query, or of the ID lookup after a
\* port was found, gives a non-nil error; after a port matching the MAC was
\* found FindNodeByMAC never returns an empty result with no error.
C4_NeverEmptyAfterPortFound ==
    ret.op = "FindNodeByMAC" =>
        LET matching == PortsWithAddress(ret.macAddress)
        IN  /\ ret.client.list # "ok" => ret.out.err # NoError
            /\ (ret.client.list = "ok" /\ Len(matching) >= 1)
               => ~(ret.out.node = NilNode /\ ret.out.err = NoError)

\* C4 amended: a failure of the port query gives that error; when a port was
\* found and the ID lookup of its owning node fails for a reason other than
\* "not found", the result is a non-nil error; after a port was found an
\* empty result with no error is returned only when the ID lookup of the
\* owning node reports "not found".
C4_StageFailuresSurface ==
    ret.op = "FindNodeByMAC" =>
        LET matching == PortsWithAddress(ret.macAddress)
        IN  /\ ret.client.list = "pageError"
               => (ret.out.node = NilNode /\ ret.out.err = ErrDefault500)
            /\ ret.client.list = "extractError"
               => (ret.out.node = NilNode /\ ret.out.err = ErrExtract)
            /\ (ret.client.list = "ok" /\ Len(matching) >= 1)
               => LET owner == matching[1].NodeUUID
                  IN  /\ ret.client.get[owner] = "error"
                         => (ret.out.node = NilNode /\ ret.out.err # NoError)
                      /\ (ret.out.node = NilNode /\ ret.out.err = NoError)
                         => ret.client.get[owner] = "notfound"

C4_Witness ==
    /\ ret.op = "FindNodeByMAC"
    /\ ret.client.list = "ok"
    /\ Len(PortsWithAddress(ret.macAddress)) >= 1
    /\ ret.client.get[PortsWithAddress(ret.macAddress)[1].NodeUUID] = "error"
    /\ ret.out.err # NoError

\* C5: for a non-empty ID the outcome of GetNode is that of the remote
\* lookup: found gives the node and no error; "not found" gives an empty
\* result and no error; any other failure gives no node and an error that
\* wraps the failure with the ID.  GetNode never returns a node and an error.
C5_GetNodeOutcomes ==
    ret.op = "GetNode" =>
        /\ ~(ret.out.node # NilNode /\ ret.out.err # NoError)
        /\ ret.nodeID # "" =>
            /\ ret.client.get[ret.nodeID] = "found"
               => (ret.out.node = NodeOf(ret.nodeID) /\ ret.out.err = NoError)
            /\ ret.client.get[ret.nodeID] = "notfound"
               => (ret.out.node = NilNode /\ ret.out.err = NoError)
            /\ ret.client.get[ret.nodeID] = "error"
               => /\ ret.out.node = NilNode
                  /\ ret.out.err = Errorf("failed to find node by ID", ret.nodeID,
                                          ErrDefault500)

C5_Witness ==
    /\ ret.op = "GetNode"
    /\ ret.nodeID = "a"
    /\ ret.client.get["a"] = "error"
    /\ ret.out.node = NilNode
    /\ ret.out.err # NoError

\* C6: GetNode with the empty ID returns an empty result and no error and
\* issues no remote call: the count of requests is what it was before the
\* call.  FindNodeByNames issues no request for an empty candidate name: the
\* count grows by the number of non-empty names it tried.
C6_EmptyIDNoRemoteCall ==
    /\ (ret.op = "GetNode" /\ ret.nodeID = "") =>
           /\ ret.out.node = NilNode
           /\ ret.out.err = NoError
           /\ requests = ret.before
    /\ ret.op = "FindNodeByNames" =>
           /\ \A i \in 1..Len(ret.out.reqs) : ret.out.reqs[i].arg # ""
           /\ requests <= ret.before + Len(NonEmptyNames(ret.names))
           /\ (NonEmptyNames(ret.names) = <<>>) => requests = ret.before

C6_Witness ==
    /\ ret.op = "GetNode"
    /\ ret.nodeID = ""
    /\ ret.before = 2
    /\ requests = 2

\* C7: Validate returns the reasons of the failing outcomes, Boot before
\* Deploy, nothing for a passing outcome, and a nil error; when the
\* validation call fails it returns that error unchanged and no failures.
C7_ValidateFailures ==
    ret.op = "Validate" =>
        LET v == ret.client.validate
        IN  IF v.err # NoError
            THEN ret.out.err = v.err /\ ret.out.failures = <<>>
            ELSE /\ ret.out.err = NoError
                 /\ (v.Boot.Result /\ v.Deploy.Result) => ret.out.failures = <<>>
                 /\ (~v.Boot.Result /\ v.Deploy.Result)
                    => ret.out.failures = <<v.Boot.Reason>>
                 /\ (v.Boot.Result /\ ~v.Deploy.Result)
                    => ret.out.failures = <<v.Deploy.Reason>>
                 /\ (~v.Boot.Result /\ ~v.Deploy.Result)
                    => ret.out.failures = <<v.Boot.Reason, v.Deploy.Reason>>

\* Boot fails with "no image", Deploy passes: exactly ["no image"]
C7_Witness ==
    /\ ret.op = "Validate"
    /\ ret.client.validate.err = NoError
    /\ ret.client.validate.Boot = [Result |-> FALSE, Reason |-> "no image"]
    /\ ret.client.validate.Deploy.Result
    /\ ret.out.failures = <<"no image">>
    /\ ret.out.err = NoError

\* C8: ValidateUpdate always returns an error and ValidateDelete never does;
\* so a stored subscription keeps the content it was created with, it comes
\* to be stored only by a Create whose validation reports no violation, and
\* it ceases to be stored only by a Delete.
C8_SubscriptionImmutable ==
    /\ [](admission.hook = "update" => admission.err # NoError)
    /\ [](admission.hook = "delete" => admission.err = NoError)
    /\ [][\A name \in SubNames :
            /\ (subscription[name] # Absent /\ subscription'[name] # Absent)
               => subscription'[name] = subscription[name]
            /\ (subscription[name] = Absent /\ subscription'[name] # Absent)
               => /\ admission'.hook = "create"
                  /\ admission'.object = subscription'[name]
                  /\ validateSubscription(subscription'[name]) = <<>>
            /\ (subscription[name] # Absent /\ subscription'[name] = Absent)
               => (admission'.hook = "delete" /\ admission'.object = subscription[name])
         ]_vars

\* an update that proposes other, valid content for a stored subscription
C8_Witness ==
    /\ admission.hook = "update"
    /\ admission.object # admission.old
    /\ validateSubscription(admission.object) = <<>>
    /\ admission.err # NoError
    /\ subscription[admission.object.Name] = admission.old

\* C9: HasPorts returns (false, nil) for a node with no registered port and
\* (true, nil) for a node with one or more; when paging or the emptiness
\* check fails it returns false and an error.  Once CreateBootPort has
\* succeeded for a node, a HasPorts call that does not fail returns true.
C9_HasPorts ==
    ret.op = "HasPorts" =>
        /\ ret.client.list = "ok"
           => /\ ret.out.err = NoError
              /\ ret.out.has = (Len(PortsOfNode(ret.node.UUID)) >= 1)
              /\ ret.node.UUID \in booted => ret.out.has
        /\ ret.client.list # "ok"
           => (~ret.out.has /\ ret.out.err # NoError)

C9_Witness ==
    /\ ret.op = "HasPorts"
    /\ ret.node.UUID \in booted
    /\ Len(ports) = 2
    /\ Len(PortsOfNode(ret.node.UUID)) = 1
    /\ ret.out.has
    /\ ret.out.err = NoError

\* C10: FindNodeByNames stops at the first lookup that fails for a reason
\* other than "not found": it returns no node and an error and looks up no
\* later name, even one that exists.  If every lookup reports "not found",
\* or the list is empty, it returns an empty result and no error.
C10_FirstFailureStops ==
    ret.op = "FindNodeByNames" =>
        /\ \A k \in 1..Len(ret.names) :
               FirstFailureAt(ret.client, ret.names, k) =>
                   /\ ret.out.node = NilNode
                   /\ ret.out.err # NoError
                   /\ LookedUp(ret.out.reqs) = NonEmptyNames(SubSeq(ret.names, 1, k))
        /\ (\A k \in 1..Len(ret.names) :
               ~Exists(ret.client, ret.names[k]) /\ ~Fails(ret.client, ret.names[k]))
           => (ret.out.node = NilNode /\ ret.out.err = NoError)

\* the first name fails and a later name exists
C10_Witness ==
    /\ ret.op = "FindNodeByNames"
    /\ ret.names = <<"a", "b">>
    /\ ret.client.get["a"] = "error"
    /\ ret.client.get["b"] = "found"
    /\ ret.out.node = NilNode
    /\ ret.out.err # NoError
    /\ LookedUp(ret.out.reqs) = <<"a">>

=============================================================================
